---------------------------- MODULE Spec2Model ----------------------------
(***************************************************************************)
(* Audit_BTP_Tool: the crawler (scan_directory), the debris classifier,    *)
(* the metadata dispatcher and the SQLite inventory store                  *)
(* (DatabaseManager), as one state machine.                                *)
(*                                                                         *)
(* Strings of the program are sequences of one-character strings, so that  *)
(* lower(), splitext() and the "in" substring test are computed.           *)
(***************************************************************************)
EXTENDS Integers, Sequences, FiniteSets, TLC

(***************************************************************************)
(* Bounds of the model.                                                    *)
(***************************************************************************)
\* most files present in the tree at once
MaxFiles == 2
\* most changes made to the tree between program runs
MaxEdits == 1
\* most program runs (main: crawl, report, close) against the same store
MaxRuns == 2
\* most transient faults (I/O or SQLite errors) the environment injects
MaxFaults == 1

(***************************************************************************)
(* Python string operations.                                               *)
(***************************************************************************)
UpperToLower ==
    [A |-> "a", B |-> "b", C |-> "c", D |-> "d", E |-> "e", F |-> "f",
     G |-> "g", H |-> "h", I |-> "i", J |-> "j", K |-> "k", L |-> "l",
     M |-> "m", N |-> "n", O |-> "o", P |-> "p", Q |-> "q", R |-> "r",
     S |-> "s", T |-> "t", U |-> "u", V |-> "v", W |-> "w", X |-> "x",
     Y |-> "y", Z |-> "z"]

\* str.lower()
Lower(s) ==
    [i \in 1..Len(s) |->
        IF s[i] \in DOMAIN UpperToLower THEN UpperToLower[s[i]] ELSE s[i]]

\* sub in s
Contains(s, sub) ==
    \E i \in 0..(Len(s) - Len(sub)) : SubSeq(s, i + 1, i + Len(sub)) = sub

\* s.rfind(c), 1-based, 0 when absent
RFind(s, c) ==
    LET hits == {i \in 1..Len(s) : s[i] = c}
    IN  IF hits = {} THEN 0 ELSE CHOOSE i \in hits : \A j \in hits : j <= i

\* os.path.splitext(name)[1] for a name without separator: the suffix from
\* the last dot, unless only dots come before it
SplitExt(name) ==
    LET dot == RFind(name, ".")
    IN  IF dot > 0 /\ \E i \in 1..(dot - 1) : name[i] # "."
        THEN SubSeq(name, dot, Len(name))
        ELSE <<>>

\* os.path.join(dir, name) / entry.path
Join(dir, name) == dir \o <<"/">> \o name

\* entry.name of a path
Basename(path) == SubSeq(path, RFind(path, "/") + 1, Len(path))

(***************************************************************************)
(* DebrisFilter.                                                           *)
(***************************************************************************)
TRASH_EXTENSIONS ==
    { <<".", "b", "a", "k">>, <<".", "s", "v", "$">>, <<".", "t", "m", "p">>,
      <<".", "l", "o", "g">>,
      <<".", "d", "s", "_", "s", "t", "o", "r", "e">>,
      <<".", "p", "l", "o", "t", ".", "l", "o", "g">>,
      <<".", "e", "r", "r">>, <<".", "d", "m", "p">>, <<".", "o", "l", "d">> }

TRASH_FILENAMES ==
    { <<"t", "h", "u", "m", "b", "s", ".", "d", "b">>,
      <<"d", "e", "s", "k", "t", "o", "p", ".", "i", "n", "i">>,
      <<".", "b", "r", "i", "d", "g", "e", "c", "a", "c", "h", "e">> }

TokConflit == <<"c", "o", "n", "f", "l", "i", "t">>
TokCopie == <<"c", "o", "p", "i", "e">>

\* DebrisFilter.evaluate with the filename rule tried before the extension rule
evaluate_NameFirst(filename, extension) ==
    IF Lower(filename) \in TRASH_FILENAMES
    THEN [score |-> 100, category |-> "TRASH_SYS"]
    ELSE IF extension \in TRASH_EXTENSIONS
    THEN [score |-> 100, category |-> "TRASH_EXT"]
    ELSE IF Contains(Lower(filename), TokConflit) /\ Contains(Lower(filename), TokCopie)
    THEN [score |-> 90, category |-> "CONFLICT_COPY"]
    ELSE [score |-> 0, category |-> "PENDING"]

\* DebrisFilter.evaluate comparing the filename as it is spelt, without lower()
evaluate_NoLower(filename, extension) ==
    IF extension \in TRASH_EXTENSIONS
    THEN [score |-> 100, category |-> "TRASH_EXT"]
    ELSE IF filename \in TRASH_FILENAMES
    THEN [score |-> 100, category |-> "TRASH_SYS"]
    ELSE IF Contains(Lower(filename), TokConflit) /\ Contains(Lower(filename), TokCopie)
    THEN [score |-> 90, category |-> "CONFLICT_COPY"]
    ELSE [score |-> 0, category |-> "PENDING"]

\* DebrisFilter.evaluate(filename, extension) -> (score, category)
evaluate(filename, extension) ==
    IF extension \in TRASH_EXTENSIONS
    THEN [score |-> 100, category |-> "TRASH_EXT"]
    ELSE IF Lower(filename) \in TRASH_FILENAMES
    THEN [score |-> 100, category |-> "TRASH_SYS"]
    ELSE IF Contains(Lower(filename), TokConflit) /\ Contains(Lower(filename), TokCopie)
    THEN [score |-> 90, category |-> "CONFLICT_COPY"]
    ELSE [score |-> 0, category |-> "PENDING"]


(***************************************************************************)
(* config/settings.py.                                                     *)
(***************************************************************************)
\* None (or an empty list): every extension is scanned
TARGET_EXTENSIONS == {}

EXT_CAD ==
    { <<".", "d", "w", "g">>, <<".", "d", "x", "f">>, <<".", "r", "v", "t">>,
      <<".", "i", "f", "c">>, <<".", "n", "w", "d">>, <<".", "p", "l", "n">> }
EXT_DOC ==
    { <<".", "p", "d", "f">>, <<".", "d", "o", "c", "x">>, <<".", "d", "o", "c">>,
      <<".", "o", "d", "t">>, <<".", "r", "t", "f">>, <<".", "t", "x", "t">>,
      <<".", "m", "d">> }
EXT_IMG ==
    { <<".", "j", "p", "g">>, <<".", "j", "p", "e", "g">>, <<".", "p", "n", "g">>,
      <<".", "t", "i", "f", "f">>, <<".", "t", "i", "f">>, <<".", "w", "e", "b", "p">>,
      <<".", "b", "m", "p">> }
EXT_XLS ==
    { <<".", "x", "l", "s", "x">>, <<".", "x", "l", "s">>, <<".", "c", "s", "v">>,
      <<".", "o", "d", "s">>, <<".", "x", "m", "l">> }
EXT_ARC ==
    { <<".", "z", "i", "p">>, <<".", "r", "a", "r">>, <<".", "7", "z">>,
      <<".", "t", "a", "r">>, <<".", "g", "z">> }

\* EXTENSION_MAP.get(ext): the families are disjoint, so the order of the
\* five loops that fill the map does not matter
EXTENSION_MAP(ext) ==
    IF ext \in EXT_CAD THEN "meta_cad"
    ELSE IF ext \in EXT_DOC THEN "meta_document"
    ELSE IF ext \in EXT_IMG THEN "meta_visual"
    ELSE IF ext \in EXT_XLS THEN "meta_spreadsheet"
    ELSE IF ext \in EXT_ARC THEN "meta_archive"
    ELSE "None"

(***************************************************************************)
(* The file tree under audit.  A file is its bytes, whether open() for     *)
(* reading succeeds, and its modification time.  The directories are       *)
(* fixed: r with the sub-directories r/s and r/t.                          *)
(***************************************************************************)
ROOT == <<"r">>
DirS == Join(ROOT, <<"s">>)
DirT == Join(ROOT, <<"t">>)
Dirs == {ROOT, DirS, DirT}

\* names of the sub-directories of a directory
SubDirs(dir) == IF dir = ROOT THEN {<<"s">>, <<"t">>} ELSE {}

\* names of the symbolic links of a directory: r/t/up points back to r
SymLinks(dir) == IF dir = DirT THEN {<<"u", "p">>} ELSE {}

\* the places where the model may put a file
Path_thumbs == Join(ROOT, <<"T", "h", "u", "m", "b", "s", ".", "d", "b">>)
Path_dwg == Join(DirS, <<"b", ".", "d", "w", "g">>)
Path_bak == Join(DirS, <<"o", "l", "d", ".", "B", "A", "K">>)
Path_csv ==
    Join(DirT, <<"C", "o", "n", "f", "l", "i", "t", " ", "c", "o", "p", "i", "e", ".", "c", "s", "v">>)
Path_ini == Join(DirT, <<"d", "e", "s", "k", "t", "o", "p", ".", "i", "n", "i">>)

FilePaths == {Path_thumbs, Path_dwg, Path_bak, Path_csv, Path_ini}

\* byte strings a file may hold
Contents == {<<1>>, <<1, 2>>}

NoFile == [exists |-> FALSE, content |-> <<>>, readable |-> TRUE, mtime |-> 0]

Files ==
    [exists : {TRUE}, content : Contents, readable : BOOLEAN, mtime : 0..MaxEdits]

Dirname(path) == SubSeq(path, 1, RFind(path, "/") - 1)

(***************************************************************************)
(* FileManager (hasher.py).                                                *)
(***************************************************************************)
SKIPPED_TRASH == [sentinel |-> "SKIPPED_TRASH", digest |-> <<>>]
ACCESS_DENIED == [sentinel |-> "ACCESS_DENIED", digest |-> <<>>]

\* hashlib.sha256(...).hexdigest(): one digest per byte string, no collision
Sha256(bytes) == [sentinel |-> "", digest |-> bytes]

\* FileManager.get_file_hash
get_file_hash(file) ==
    IF file.readable THEN Sha256(file.content) ELSE ACCESS_DENIED

(***************************************************************************)
(* MetadataDispatcher and the extractors (metadata_engine.py).             *)
(***************************************************************************)
Ext_pdf == <<".", "p", "d", "f">>
Ext_dwg == <<".", "d", "w", "g">>
Ext_dxf == <<".", "d", "x", "f">>
Ext_rvt == <<".", "r", "v", "t">>
Ext_ifc == <<".", "i", "f", "c">>
Ext_xlsm == <<".", "x", "l", "s", "m">>

ImageExts ==
    { <<".", "j", "p", "g">>, <<".", "j", "p", "e", "g">>, <<".", "p", "n", "g">>,
      <<".", "t", "i", "f", "f">>, <<".", "w", "e", "b", "p">>, <<".", "b", "m", "p">> }
CadExts == {Ext_dwg, Ext_dxf, Ext_rvt, Ext_ifc}
SheetExts ==
    { <<".", "x", "l", "s", "x">>, <<".", "x", "l", "s">>, <<".", "c", "s", "v">> }

MetaTables ==
    {"meta_cad", "meta_document", "meta_visual", "meta_spreadsheet", "meta_archive"}

\* CadExtractor.ACAD_VERSIONS, keyed by the 6 signature bytes (ASCII codes)
ACAD_VERSIONS ==
    { [sig |-> <<65, 67, 49, 48, 51, 50>>, version |-> "AutoCAD 2018/2023"],
      [sig |-> <<65, 67, 49, 48, 50, 55>>, version |-> "AutoCAD 2013/2017"],
      [sig |-> <<65, 67, 49, 48, 50, 52>>, version |-> "AutoCAD 2010/2012"],
      [sig |-> <<65, 67, 49, 48, 50, 49>>, version |-> "AutoCAD 2007/2009"],
      [sig |-> <<65, 67, 49, 48, 49, 56>>, version |-> "AutoCAD 2004/2006"],
      [sig |-> <<65, 67, 49, 48, 49, 53>>, version |-> "AutoCAD 2000/2002"],
      [sig |-> <<65, 67, 49, 48, 49, 52>>, version |-> "AutoCAD R14"],
      [sig |-> <<65, 67, 49, 48, 48, 57>>, version |-> "AutoCAD R11/R12"] }

\* bytes.decode('utf-8', errors='ignore') on the bytes the model uses: an
\* ASCII byte is its character, any other byte of these is dropped
DecodeIgnore(bytes) == SelectSeq(bytes, LAMBDA b : b < 128)

\* a text a label is built from: a fixed part and the characters put into it
Label(fixed, chars) == [text |-> fixed, arg |-> chars]

\* _analyze_dwg_binary looking the whole file up in ACAD_VERSIONS instead of
\* its first 6 bytes
analyze_dwg_binary_WholeFile(file) ==
    LET header == file.content
        known == {v \in ACAD_VERSIONS : v.sig = header}
    IN  [software_version |->
            IF ~file.readable THEN Label("Error: ", <<>>)
            ELSE IF known # {} THEN Label((CHOOSE v \in known : TRUE).version, <<>>)
            ELSE Label("Legacy/New ()", DecodeIgnore(header)),
         has_xrefs |-> FALSE,
         scale |-> "1:1"]

\* CadExtractor._analyze_dwg_binary
analyze_dwg_binary(file) ==
    LET header == SubSeq(file.content, 1, IF Len(file.content) < 6 THEN Len(file.content) ELSE 6)
        known == {v \in ACAD_VERSIONS : v.sig = header}
    IN  [software_version |->
            IF ~file.readable THEN Label("Error: ", <<>>)
            ELSE IF known # {} THEN Label((CHOOSE v \in known : TRUE).version, <<>>)
            ELSE Label("Legacy/New ()", DecodeIgnore(header)),
         has_xrefs |-> FALSE,
         scale |-> "1:1"]

\* CadExtractor.extract; the model's byte strings are no DXF, OLE or IFC
\* documents, so those three analysers give their defaults
CadExtract(path, file) ==
    LET ext == Lower(SplitExt(path))
    IN  IF ext = Ext_dwg THEN analyze_dwg_binary(file)
        ELSE IF ext = Ext_dxf
        THEN [software_version |-> Label("DXF Unknown", <<>>), has_xrefs |-> FALSE, scale |-> "1:1"]
        ELSE IF ext = Ext_rvt
        THEN [software_version |-> Label("Revit Unknown", <<>>), has_xrefs |-> FALSE, scale |-> "N/A"]
        ELSE IF ext = Ext_ifc
        THEN [software_version |-> Label("IFC Unknown", <<>>), has_xrefs |-> FALSE, scale |-> "1:1"]
        ELSE [software_version |-> Label("Unknown Format", <<>>), has_xrefs |-> FALSE, scale |-> "N/A"]

\* PdfExtractor.extract on a byte string pypdf cannot parse: the defaults
PdfExtract(path, file) ==
    [page_count |-> 0, is_encrypted |-> FALSE, producer_tool |-> "None", author |-> "None"]

\* ImageExtractor.extract on a byte string PIL cannot decode: the defaults
ImageExtract(path, file) ==
    [width |-> 0, height |-> 0, color_space |-> "UNKNOWN"]

\* str.endswith
EndsWith(s, suffix) ==
    Len(s) >= Len(suffix) /\ SubSeq(s, Len(s) - Len(suffix) + 1, Len(s)) = suffix

\* SpreadsheetExtractor.extract
SpreadsheetExtract(path, file) ==
    [sheet_count |-> 1, has_macros |-> EndsWith(path, Ext_xlsm)]

\* the empty dict
EmptyDict == <<>>

\* MetadataDispatcher.dispatch(file_path, extension) -> (table, payload)
dispatch(path, file, extension) ==
    LET ext == Lower(extension)
    IN  IF ext = Ext_pdf
        THEN [table |-> "meta_document", payload |-> PdfExtract(path, file)]
        ELSE IF ext \in ImageExts
        THEN [table |-> "meta_visual", payload |-> ImageExtract(path, file)]
        ELSE IF ext \in CadExts
        THEN [table |-> "meta_cad", payload |-> CadExtract(path, file)]
        ELSE IF ext \in SheetExts
        THEN [table |-> "meta_spreadsheet", payload |-> SpreadsheetExtract(path, file)]
        ELSE [table |-> "None", payload |-> EmptyDict]

(***************************************************************************)
(* DatabaseManager (db_client.py).  A database is the parent table         *)
(* files_inventory, its AUTOINCREMENT counter (sqlite_sequence) and the    *)
(* satellite tables.  Of the parent's columns the model keeps id,          *)
(* file_path and the columns the upsert or a query reads or writes after   *)
(* the first INSERT.                                                       *)
(***************************************************************************)
\* init_schema on a new database file
EmptyDb == [inv |-> {}, seq |-> 0, meta |-> [t \in MetaTables |-> {}]]

\* the parent INSERT without its ON CONFLICT clause and without the UNIQUE
\* constraint on file_path: every observation adds a row
UpsertParent_AlwaysInsert(db, main_data) ==
    [db EXCEPT !.seq = db.seq + 1,
               !.inv = db.inv \cup {[id |-> db.seq + 1] @@ main_data}]

\* the INSERT ... ON CONFLICT(file_path) DO UPDATE statement.  SQLite draws
\* the next AUTOINCREMENT id before it finds the conflict, so the counter
\* advances in both cases.
UpsertParent(db, main_data) ==
    LET id == db.seq + 1
        hit == {r \in db.inv : r.file_path = main_data.file_path}
    IN  [db EXCEPT
            !.seq = id,
            !.inv =
                IF hit = {}
                THEN db.inv \cup {[id |-> id] @@ main_data}
                ELSE {IF r \in hit
                      THEN [r EXCEPT !.content_hash = main_data.content_hash,
                                     !.dates_modified = main_data.dates_modified,
                                     !.status = main_data.status,
                                     !.risk_score = main_data.risk_score]
                      ELSE r : r \in db.inv}]

\* SELECT id FROM files_inventory WHERE file_path = ?
SelectId(db, file_path) == {r.id : r \in {x \in db.inv : x.file_path = file_path}}

\* the satellite INSERT on a table without primary key: nothing is replaced
InsertOrReplaceMeta_NoReplace(db, meta_table, file_id, meta_data) ==
    [db EXCEPT !.meta[meta_table] = @ \cup {[file_id |-> file_id] @@ meta_data}]

\* INSERT OR REPLACE INTO <meta_table> (file_id, ...): the row of the same
\* primary key is deleted first
InsertOrReplaceMeta(db, meta_table, file_id, meta_data) ==
    [db EXCEPT !.meta[meta_table] =
        {r \in @ : r.file_id # file_id} \cup {[file_id |-> file_id] @@ meta_data}]

\* a Python int that does not fit SQLite's 64-bit INTEGER, per column it may
\* be passed for: binding it raises OverflowError, which is no sqlite3.Error
Unbindable == [software_version |-> [text |-> "int", arg |-> <<"2", "^", "6", "4">>]]

Bindable(meta_data) ==
    \A k \in (DOMAIN meta_data) \cap (DOMAIN Unbindable) : meta_data[k] # Unbindable[k]

\* the statement of insert_full_entry at which SQLite reports an error
\* (disk full, database locked, I/O error), if any
SqlFaults == {"none", "parent", "select", "meta", "commit"}

\* DatabaseManager.insert_full_entry on a connection whose view of the
\* database is conn (open transaction included) while the database file
\* holds disk.  result: "committed", "rolled_back" (sqlite3.Error caught) or
\* "escaped" (another exception leaves the method: neither commit nor
\* rollback runs).
insert_full_entry(conn, disk, main_data, meta_table, meta_data, fault) ==
    LET rollback == [conn |-> disk, disk |-> disk, result |-> "rolled_back"]
        w1 == UpsertParent(conn, main_data)
        ids == SelectId(w1, main_data.file_path)
        file_id == CHOOSE i \in ids : TRUE
        has_meta == meta_table # "None" /\ DOMAIN meta_data # {}
        w2 == IF has_meta
              THEN InsertOrReplaceMeta(w1, meta_table, file_id, meta_data)
              ELSE w1
    IN  IF fault = "parent" THEN rollback
        ELSE IF fault = "select" THEN rollback
        ELSE IF ids = {} THEN [conn |-> w1, disk |-> disk, result |-> "escaped"]
        ELSE IF has_meta /\ ~Bindable(meta_data)
        THEN [conn |-> w1, disk |-> disk, result |-> "escaped"]
        ELSE IF has_meta /\ fault = "meta" THEN rollback
        ELSE IF fault = "commit" THEN rollback
        ELSE [conn |-> w2, disk |-> w2, result |-> "committed"]

RECURSIVE SumSize(_)
\* SUM(size_bytes) over a non-empty set of rows
SumSize(rows) ==
    IF rows = {} THEN 0
    ELSE LET r == CHOOSE x \in rows : TRUE
         IN  r.size_bytes + SumSize(rows \ {r})

\* get_duplicates without its WHERE clause
get_duplicates_NoFilter(db) ==
    LET group(h) == {r \in db.inv : r.content_hash = h}
    IN  { [content_hash |-> h,
           count |-> Cardinality(group(h)),
           paths |-> {r.file_path : r \in group(h)},
           total_wasted |-> SumSize(group(h))] :
          h \in {h \in {r.content_hash : r \in db.inv} : Cardinality(group(h)) > 1} }

\* DatabaseManager.get_duplicates: one row per content_hash shared by more
\* than one row WHERE category != 'TRASH_EXT' (the rows come ordered by
\* total_wasted; the model keeps them as a set)
get_duplicates(db) ==
    LET kept == {r \in db.inv : r.category # "TRASH_EXT"}
        group(h) == {r \in kept : r.content_hash = h}
    IN  { [content_hash |-> h,
           count |-> Cardinality(group(h)),
           paths |-> {r.file_path : r \in group(h)},
           total_wasted |-> SumSize(group(h))] :
          h \in {h \in {r.content_hash : r \in kept} : Cardinality(group(h)) > 1} }

\* get_trash_stats selecting by category instead of risk score
get_trash_stats_ByCategory(db) ==
    LET trash == {r \in db.inv : r.category \in {"TRASH_EXT", "TRASH_SYS"}}
    IN  [count |-> Cardinality(trash), size |-> SumSize(trash)]

\* DatabaseManager.get_trash_stats: SUM over no row is NULL, reported as 0
get_trash_stats(db) ==
    LET trash == {r \in db.inv : r.risk_score >= 90}
        sum == IF trash = {} THEN [null |-> TRUE, value |-> 0]
               ELSE [null |-> FALSE, value |-> SumSize(trash)]
    IN  [count |-> Cardinality(trash),
         size |-> IF ~sum.null /\ sum.value # 0 THEN sum.value ELSE 0]

\* generate_report's loss of one duplicate group,
\* total_wasted - total_wasted / count, as the fraction num / den
Wasted(row) ==
    [num |-> row.total_wasted * row.count - row.total_wasted, den |-> row.count]

\* generate_report (main.py): what it reads and computes before printing
generate_report(db) ==
    [trash_stats |-> get_trash_stats(db),
     duplicates |-> {[row |-> g, wasted |-> Wasted(g)] : g \in get_duplicates(db)}]

(***************************************************************************)
(* State.                                                                  *)
(***************************************************************************)
VARIABLES
    tree,         \* the file tree: FilePaths -> file or NoFile
    edits,        \* number of changes made to the tree so far
    conn,         \* the database as self.conn sees it (open transaction included)
    disk,         \* the committed database file
    pc,           \* "idle", "scan", "report", "close": where main() stands
    stack,        \* scan_directory: the work-list of directories
    current_dir,  \* scan_directory: the directory being listed
    it,           \* scan_directory: entries os.scandir has still to yield
    file_count,   \* scan_directory: the counter of the terminal summary
    hashed,       \* paths get_file_hash was called on, ever
    last,         \* path and outcome of the latest file of the crawl
    faulted,      \* a transient fault (I/O or SQLite) hit the current crawl
    faults,       \* transient faults injected so far
    runs,         \* completed program runs
    prev,         \* what the previous crawl left, noted when it ended
    report,       \* what generate_report last computed
    calls,        \* direct calls of insert_full_entry made (store driven alone)
    before,       \* conn and disk before the latest direct call
    ev,           \* DebrisFilter.evaluate driven alone: arguments and result
    dp,           \* MetadataDispatcher.dispatch driven alone: arguments and result
    hist          \* what the current crawl did so far: directories popped and
                  \* abandoned, files processed, store calls, commits

vars ==
    <<tree, edits, conn, disk, pc, stack, current_dir, it, file_count, hashed,
      last, faulted, faults, runs, prev, report, calls, before, ev, dp, hist>>

\* the variables of the store, of evaluate and of dispatch driven alone
alone_vars == <<calls, before, ev, dp>>

NoLast == [path |-> <<>>, result |-> "none"]
NoReport == [trash_stats |-> [count |-> 0, size |-> 0], duplicates |-> {}]
NoPrev == [inv |-> {}, clean |-> FALSE, edits |-> 0]
NoEv ==
    [filename |-> <<>>, extension |-> <<>>, done |-> FALSE,
     result |-> [score |-> 0, category |-> "PENDING"]]

NoDp ==
    [path |-> <<>>, extension |-> <<>>, file |-> NoFile, done |-> FALSE,
     result |-> [table |-> "None", payload |-> EmptyDict]]
\* nothing done yet: the state of a crawl that starts
NoHist ==
    [popped |-> [d \in Dirs |-> 0], abandoned |-> {},
     seen |-> [p \in FilePaths |-> 0], handed |-> [p \in FilePaths |-> 0],
     raised |-> {}, committed |-> 0]

FilesIn(t) == {p \in FilePaths : t[p].exists}

Init ==
    /\ tree \in {t \in [FilePaths -> Files \cup {NoFile}] :
                    /\ Cardinality(FilesIn(t)) <= MaxFiles
                    /\ \A p \in FilePaths : t[p].mtime = 0}
    /\ edits = 0
    /\ conn = EmptyDb
    /\ disk = EmptyDb
    /\ pc = "idle"
    /\ stack = <<>>
    /\ current_dir = <<>>
    /\ it = {}
    /\ file_count = 0
    /\ hashed = {}
    /\ last = NoLast
    /\ faulted = FALSE
    /\ faults = 0
    /\ runs = 0
    /\ prev = NoPrev
    /\ report = NoReport
    /\ calls = 0
    /\ before = [conn |-> EmptyDb, disk |-> EmptyDb]
    /\ ev = NoEv
    /\ dp = NoDp
    /\ hist = NoHist

(***************************************************************************)
(* The world changes the tree between two program runs.                    *)
(***************************************************************************)
MayEdit == pc = "idle" /\ edits < MaxEdits /\ runs >= 1 /\ runs < MaxRuns

\* a file is created or rewritten
WriteFile(p, bytes) ==
    /\ MayEdit
    /\ Cardinality(FilesIn(tree) \cup {p}) <= MaxFiles
    /\ edits' = edits + 1
    /\ tree' = [tree EXCEPT ![p] =
                    [exists |-> TRUE, content |-> bytes,
                     readable |-> tree[p].readable, mtime |-> edits + 1]]
    /\ UNCHANGED <<conn, disk, pc, stack, current_dir, it, file_count, hashed, last,
                   faulted, faults, runs, prev, report, alone_vars, hist>>

\* a file is deleted
RemoveFile(p) ==
    /\ MayEdit
    /\ tree[p].exists
    /\ edits' = edits + 1
    /\ tree' = [tree EXCEPT ![p] = NoFile]
    /\ UNCHANGED <<conn, disk, pc, stack, current_dir, it, file_count, hashed, last,
                   faulted, faults, runs, prev, report, alone_vars, hist>>

\* the read permission of a file is flipped
Chmod(p) ==
    /\ MayEdit
    /\ tree[p].exists
    /\ edits' = edits + 1
    /\ tree' = [tree EXCEPT ![p].readable = ~@]
    /\ UNCHANGED <<conn, disk, pc, stack, current_dir, it, file_count, hashed, last,
                   faulted, faults, runs, prev, report, alone_vars, hist>>

(***************************************************************************)
(* main() and scan_directory (main.py, local_loader.py).                   *)
(***************************************************************************)
\* os.scandir with is_dir() following symbolic links: a link to a directory
\* is reported as a directory
Listing_FollowLinks(dir) ==
    {[name |-> n, path |-> Join(dir, n), is_dir |-> TRUE, is_file |-> FALSE] :
        n \in SubDirs(dir) \cup SymLinks(dir)}
    \cup {[name |-> Basename(p), path |-> p, is_dir |-> FALSE, is_file |-> TRUE] :
            p \in {q \in FilesIn(tree) : Dirname(q) = dir}}

\* what os.scandir(dir) yields
Listing(dir) ==
    {[name |-> n, path |-> Join(dir, n), is_dir |-> TRUE, is_file |-> FALSE] :
        n \in SubDirs(dir)}
    \cup {[name |-> n, path |-> Join(dir, n), is_dir |-> FALSE, is_file |-> FALSE] :
            n \in SymLinks(dir)}
    \cup {[name |-> Basename(p), path |-> p, is_dir |-> FALSE, is_file |-> TRUE] :
            p \in {q \in FilesIn(tree) : Dirname(q) = dir}}

\* datetime.fromtimestamp(t).isoformat()
IsoFormat(t) == [iso |-> t]

\* the record scan_directory assembles for one file
MainData(entry, file, ext) ==
    LET verdict == evaluate(entry.name, ext)
        category == IF verdict.category = "PENDING" THEN "WORK_FILE" ELSE verdict.category
    IN  [content_hash |-> IF category = "TRASH_SYS" THEN SKIPPED_TRASH
                          ELSE get_file_hash(file),
         file_path |-> entry.path,
         size_bytes |-> Len(file.content),
         dates_modified |-> IsoFormat(file.mtime),
         category |-> category,
         risk_score |-> verdict.score,
         status |-> "SCANNED"]

\* main(): DatabaseManager(DB_NAME) connects, then scan_directory starts
Main ==
    /\ pc = "idle" /\ runs < MaxRuns
    /\ pc' = "scan"
    /\ conn' = disk
    /\ stack' = <<ROOT>>
    /\ current_dir' = <<>>
    /\ it' = {}
    /\ file_count' = 0
    /\ faulted' = FALSE
    /\ last' = NoLast
    /\ report' = NoReport
    /\ hist' = NoHist
    /\ UNCHANGED <<tree, edits, disk, hashed, faults, runs, prev, alone_vars>>

\* while stack: current_dir = stack.pop(); os.scandir(current_dir) opens the
\* directory or raises PermissionError / OSError
PopDir ==
    /\ pc = "scan" /\ it = {} /\ stack # <<>>
    /\ current_dir' = stack[Len(stack)]
    /\ stack' = SubSeq(stack, 1, Len(stack) - 1)
    /\ \E ok \in {b \in BOOLEAN : b \/ faults < MaxFaults} :
        /\ it' = IF ok THEN Listing(stack[Len(stack)]) ELSE {}
        /\ faulted' = (faulted \/ ~ok)
        /\ faults' = IF ok THEN faults ELSE faults + 1
        /\ hist' = [hist EXCEPT
                        !.popped[stack[Len(stack)]] = @ + 1,
                        !.abandoned = IF ok THEN @ ELSE @ \cup {stack[Len(stack)]}]
    /\ UNCHANGED <<tree, edits, conn, disk, pc, file_count, hashed, last, runs, prev,
                   report, alone_vars>>

\* for entry in it: a directory is pushed on the work-list
ScanSubDir(entry) ==
    /\ pc = "scan" /\ entry \in it /\ entry.is_dir
    /\ stack' = Append(stack, entry.path)
    /\ it' = it \ {entry}
    /\ UNCHANGED <<tree, edits, conn, disk, pc, current_dir, file_count, hashed, last,
                   faulted, faults, runs, prev, report, alone_vars, hist>>

\* scan_directory calling the store before the step that raises: the record
\* of a file whose processing fails is written all the same
ScanFile_StoreFirst(entry, raised, fault) ==
    /\ pc = "scan" /\ entry \in it /\ ~entry.is_dir /\ entry.is_file
    /\ (raised \/ fault # "none") => faults < MaxFaults
    /\ ~(raised /\ fault # "none")
    /\ it' = it \ {entry}
    /\ LET file == tree[entry.path]
           ext == Lower(SplitExt(entry.name))
           main_data == MainData(entry, file, ext)
           meta == dispatch(entry.path, file, ext)
           res == insert_full_entry(conn, disk, main_data, meta.table, meta.payload, fault)
       IN  /\ hashed' = IF main_data.category = "TRASH_SYS" THEN hashed
                        ELSE hashed \cup {entry.path}
           /\ conn' = res.conn
           /\ disk' = res.disk
           /\ last' = [path |-> entry.path,
                       result |-> IF raised THEN "file_error" ELSE res.result]
           /\ faulted' = (faulted \/ raised \/ res.result = "rolled_back")
           /\ faults' = IF raised \/ res.result = "rolled_back" THEN faults + 1 ELSE faults
           /\ file_count' = IF raised \/ res.result = "escaped" THEN file_count
                            ELSE file_count + 1
           /\ hist' = [hist EXCEPT
                           !.seen[entry.path] = @ + 1,
                           !.handed[entry.path] = @ + 1,
                           !.committed = IF res.result = "committed" THEN @ + 1 ELSE @]
    /\ UNCHANGED <<tree, edits, pc, stack, current_dir, runs, prev, report, alone_vars>>

\* for entry in it: a regular file is processed.  raised: an exception
\* leaves the try block after hashing and before the store is called
\* (entry.stat(), an extractor, the record assembly); fault: see SqlFaults.
ScanFile(entry, raised, fault) ==
    /\ pc = "scan" /\ entry \in it /\ ~entry.is_dir /\ entry.is_file
    /\ (raised \/ fault # "none") => faults < MaxFaults
    /\ ~(raised /\ fault # "none")
    /\ it' = it \ {entry}
    /\ LET file == tree[entry.path]
           ext == Lower(SplitExt(entry.name))
           main_data == MainData(entry, file, ext)
           meta == dispatch(entry.path, file, ext)
           res == insert_full_entry(conn, disk, main_data, meta.table, meta.payload, fault)
       IN  IF TARGET_EXTENSIONS # {} /\ ext \notin TARGET_EXTENSIONS
           THEN /\ last' = [path |-> entry.path, result |-> "filtered"]
                /\ UNCHANGED <<conn, disk, file_count, hashed, faulted, faults, hist>>
           ELSE /\ hashed' = IF main_data.category = "TRASH_SYS" THEN hashed
                             ELSE hashed \cup {entry.path}
                /\ IF raised
                   THEN /\ last' = [path |-> entry.path, result |-> "file_error"]
                        /\ faulted' = TRUE
                        /\ faults' = faults + 1
                        /\ hist' = [hist EXCEPT !.seen[entry.path] = @ + 1,
                                                !.raised = @ \cup {entry.path}]
                        /\ UNCHANGED <<conn, disk, file_count>>
                   ELSE /\ conn' = res.conn
                        /\ disk' = res.disk
                        /\ last' = [path |-> entry.path, result |-> res.result]
                        /\ faulted' = (faulted \/ res.result = "rolled_back")
                        /\ faults' = IF res.result = "rolled_back" THEN faults + 1 ELSE faults
                        /\ file_count' = IF res.result = "escaped" THEN file_count
                                         ELSE file_count + 1
                        /\ hist' = [hist EXCEPT
                                        !.seen[entry.path] = @ + 1,
                                        !.handed[entry.path] = @ + 1,
                                        !.committed = IF res.result = "committed"
                                                      THEN @ + 1 ELSE @]
    /\ UNCHANGED <<tree, edits, pc, stack, current_dir, runs, prev, report, alone_vars>>

\* for entry in it: neither a directory nor a regular file when symbolic
\* links are not followed: skipped
ScanOther(entry) ==
    /\ pc = "scan" /\ entry \in it /\ ~entry.is_dir /\ ~entry.is_file
    /\ it' = it \ {entry}
    /\ UNCHANGED <<tree, edits, conn, disk, pc, stack, current_dir, file_count, hashed, last,
                   faulted, faults, runs, prev, report, alone_vars, hist>>

\* the directory iterator raises OSError part-way: the rest of the listing
\* is lost and the outer handler reports the directory
ListingError ==
    /\ pc = "scan" /\ it # {} /\ faults < MaxFaults
    /\ it' = {}
    /\ faulted' = TRUE
    /\ faults' = faults + 1
    /\ hist' = [hist EXCEPT !.abandoned = @ \cup {current_dir}]
    /\ UNCHANGED <<tree, edits, conn, disk, pc, stack, current_dir, file_count, hashed,
                   last, runs, prev, report, alone_vars>>

\* the work-list is empty: scan_directory prints its summary and returns
ScanDone ==
    /\ pc = "scan" /\ it = {} /\ stack = <<>>
    /\ pc' = "report"
    /\ UNCHANGED <<tree, edits, conn, disk, stack, current_dir, it, file_count, hashed,
                   last, faulted, faults, runs, prev, report, alone_vars, hist>>

\* generate_report(db)
Report ==
    /\ pc = "report"
    /\ report' = generate_report(conn)
    /\ pc' = "close"
    /\ UNCHANGED <<tree, edits, conn, disk, stack, current_dir, it, file_count, hashed,
                   last, faulted, faults, runs, prev, alone_vars, hist>>

\* db.close(): an open transaction is discarded with the connection
Close ==
    /\ pc = "close"
    /\ pc' = "idle"
    /\ prev' = [inv |-> conn.inv, clean |-> ~faulted, edits |-> edits]
    /\ conn' = disk
    /\ runs' = runs + 1
    /\ UNCHANGED <<tree, edits, disk, stack, current_dir, it, file_count, hashed,
                   last, faulted, faults, report, alone_vars, hist>>

Next ==
    \/ \E p \in FilePaths, bytes \in Contents : WriteFile(p, bytes)
    \/ \E p \in FilePaths : RemoveFile(p)
    \/ \E p \in FilePaths : Chmod(p)
    \/ Main
    \/ PopDir
    \/ \E entry \in it : ScanSubDir(entry)
    \/ \E entry \in it, raised \in BOOLEAN, fault \in SqlFaults : ScanFile(entry, raised, fault)
    \/ \E entry \in it : ScanOther(entry)
    \/ ListingError
    \/ ScanDone
    \/ Report
    \/ Close

Spec == Init /\ [][Next]_vars

\* the loop state of scan_directory: where it is, the work-list, the rest of
\* the listing being walked
loop == <<pc, stack, it>>

\* for entry in it, on a regular file: whatever the body does with the file
\* (store it, skip it, catch its exception), the iterator moves past it
NextFile ==
    \E entry \in it :
        /\ pc = "scan" /\ ~entry.is_dir /\ entry.is_file
        /\ it' = it \ {entry}
        /\ stack' = stack /\ pc' = pc

\* the steps of the two loops of scan_directory: the interpreter goes on with
\* them as long as one is possible
CrawlStep ==
    \/ PopDir
    \/ \E entry \in it : ScanSubDir(entry)
    \/ NextFile
    \/ \E entry \in it : ScanOther(entry)
    \/ ScanDone

\* the crawl under a scheduler that never abandons the loops while a step of
\* theirs is possible
SpecFair == Init /\ [][Next]_vars /\ WF_loop(CrawlStep)

(***************************************************************************)
(* DebrisFilter.evaluate driven alone, on arguments drawn independently.   *)
(***************************************************************************)
EvNames ==
    { <<"T", "h", "u", "m", "b", "s", ".", "d", "b">>,
      <<"d", "e", "s", "k", "t", "o", "p", ".", "i", "n", "i">>,
      <<".", "B", "r", "i", "d", "g", "e", "C", "a", "c", "h", "e">>,
      <<"o", "l", "d", ".", "b", "a", "k">>,
      <<"C", "o", "n", "f", "l", "i", "t", " ", "c", "o", "p", "i", "e", ".", "c", "s", "v">>,
      <<"c", "o", "p", "i", "e", "_", "C", "O", "N", "F", "L", "I", "T">>,
      <<"c", "o", "n", "f", "l", "i", "t", ".", "t", "m", "p">>,
      <<"c", "o", "p", "i", "e">>,
      <<"p", "l", "a", "n", ".", "d", "w", "g">>,
      <<>> }

EvExts ==
    { <<".", "b", "a", "k">>, <<".", "t", "m", "p">>, <<".", "s", "v", "$">>,
      <<".", "B", "A", "K">>, <<".", "d", "b">>, <<".", "c", "s", "v">>, <<>> }

InitEvaluate ==
    /\ ev \in [filename : EvNames, extension : EvExts, done : {FALSE},
               result : {NoEv.result}]
    /\ tree = [p \in FilePaths |-> NoFile]
    /\ edits = 0 /\ conn = EmptyDb /\ disk = EmptyDb /\ pc = "idle"
    /\ stack = <<>> /\ current_dir = <<>> /\ it = {} /\ file_count = 0
    /\ hashed = {} /\ last = NoLast /\ faulted = FALSE /\ faults = 0
    /\ runs = 0 /\ prev = NoPrev /\ report = NoReport /\ calls = 0
    /\ before = [conn |-> EmptyDb, disk |-> EmptyDb]
    /\ dp = NoDp
    /\ hist = NoHist

\* risk_score, category = DebrisFilter.evaluate(name, ext)
Evaluate ==
    /\ ~ev.done
    /\ ev' = [ev EXCEPT !.done = TRUE, !.result = evaluate(ev.filename, ev.extension)]
    /\ UNCHANGED <<tree, edits, conn, disk, pc, stack, current_dir, it, file_count,
                   hashed, last, faulted, faults, runs, prev, report, calls, before,
                   dp, hist>>

SpecEvaluate == InitEvaluate /\ [][Evaluate]_vars

(***************************************************************************)
(* DatabaseManager driven alone: insert_full_entry called with the records *)
(* the crawler assembles for a file, and with satellite attributes of any  *)
(* Python type.                                                            *)
(***************************************************************************)
\* most direct calls of insert_full_entry
MaxCalls == 3

StorePaths == {Path_dwg, Path_bak}

StoreInputs ==
    UNION {
        LET file == [exists |-> TRUE, content |-> bytes, readable |-> TRUE, mtime |-> 0]
            ext == Lower(SplitExt(Basename(p)))
            entry == [name |-> Basename(p), path |-> p, is_dir |-> FALSE, is_file |-> TRUE]
            meta == dispatch(p, file, ext)
            payloads ==
                {meta.payload} \cup
                    IF "software_version" \in DOMAIN meta.payload
                    THEN {[meta.payload EXCEPT
                              !.software_version = Unbindable.software_version]}
                    ELSE {}
        IN  {[main_data |-> MainData(entry, file, ext),
              meta_table |-> meta.table,
              meta_data |-> d] : d \in payloads}
        : p \in StorePaths, bytes \in Contents }

InitStore ==
    /\ tree = [p \in FilePaths |-> NoFile]
    /\ edits = 0 /\ conn = EmptyDb /\ disk = EmptyDb /\ pc = "idle"
    /\ stack = <<>> /\ current_dir = <<>> /\ it = {} /\ file_count = 0
    /\ hashed = {} /\ last = NoLast /\ faulted = FALSE /\ faults = 0
    /\ runs = 0 /\ prev = NoPrev /\ report = NoReport /\ calls = 0
    /\ before = [conn |-> EmptyDb, disk |-> EmptyDb]
    /\ ev = NoEv
    /\ dp = NoDp
    /\ hist = NoHist

\* db.insert_full_entry(main_data, meta_table, meta_data)
StoreCall(input, fault) ==
    /\ calls < MaxCalls
    /\ calls' = calls + 1
    /\ before' = [conn |-> conn, disk |-> disk]
    /\ LET res == insert_full_entry(conn, disk, input.main_data, input.meta_table,
                                    input.meta_data, fault)
       IN  /\ conn' = res.conn
           /\ disk' = res.disk
           /\ last' = [path |-> input.main_data.file_path, result |-> res.result]
    /\ UNCHANGED <<tree, edits, pc, stack, current_dir, it, file_count, hashed,
                   faulted, faults, runs, prev, report, ev, dp, hist>>

\* db.close() and a new DatabaseManager on the same file
Reconnect ==
    /\ calls > 0 /\ conn # disk
    /\ conn' = disk
    /\ last' = NoLast
    /\ UNCHANGED <<tree, edits, disk, pc, stack, current_dir, it, file_count, hashed,
                   faulted, faults, runs, prev, report, calls, before, ev, dp, hist>>

NextStore ==
    \/ \E input \in StoreInputs, fault \in SqlFaults : StoreCall(input, fault)
    \/ Reconnect

SpecStore == InitStore /\ [][NextStore]_vars

(***************************************************************************)
(* DatabaseManager driven alone on the records of files that the reports   *)
(* select: two conflict copies, a work file, a system-junk file.           *)
(***************************************************************************)
Path_csv2 ==
    Join(DirS, <<"c", "o", "p", "i", "e", " ", "c", "o", "n", "f", "l", "i", "t", ".", "c", "s", "v">>)

GainPaths == {Path_csv, Path_csv2, Path_dwg, Path_thumbs}

GainInputs ==
    { LET file == [exists |-> TRUE, content |-> bytes, readable |-> TRUE, mtime |-> 0]
          ext == Lower(SplitExt(Basename(p)))
          entry == [name |-> Basename(p), path |-> p, is_dir |-> FALSE, is_file |-> TRUE]
          meta == dispatch(p, file, ext)
      IN  [main_data |-> MainData(entry, file, ext),
           meta_table |-> meta.table,
           meta_data |-> meta.payload]
      : p \in GainPaths, bytes \in Contents }

NextGain == \E input \in GainInputs : StoreCall(input, "none")

SpecGain == InitStore /\ [][NextGain]_vars

(***************************************************************************)
(* MetadataDispatcher.dispatch driven alone, on every extension of the     *)
(* configured families and on some of no family, for files of several      *)
(* leading bytes.                                                          *)
(***************************************************************************)
FamilyExts == EXT_CAD \cup EXT_DOC \cup EXT_IMG \cup EXT_XLS \cup EXT_ARC

DpExts ==
    FamilyExts \cup {Ext_xlsm, <<".", "d", "b">>, <<".", "b", "a", "k">>, <<>>}

\* file contents as byte values: AC1032 followed by one more byte, AC1015
\* alone, the unknown signature AC9999, a file of two bytes, an empty file,
\* and a file that starts with the byte FF, which is no UTF-8
DpContents ==
    { <<65, 67, 49, 48, 51, 50, 0>>, <<65, 67, 49, 48, 49, 53>>,
      <<65, 67, 57, 57, 57, 57>>, <<65, 67>>, <<>>,
      <<255, 65, 67, 49, 48, 51, 50>> }

InitDispatch ==
    /\ \E ext \in DpExts, bytes \in DpContents, readable \in BOOLEAN :
          dp = [path |-> Join(ROOT, <<"f">> \o ext), extension |-> ext,
                file |-> [exists |-> TRUE, content |-> bytes,
                          readable |-> readable, mtime |-> 0],
                done |-> FALSE, result |-> NoDp.result]
    /\ tree = [p \in FilePaths |-> NoFile]
    /\ edits = 0 /\ conn = EmptyDb /\ disk = EmptyDb /\ pc = "idle"
    /\ stack = <<>> /\ current_dir = <<>> /\ it = {} /\ file_count = 0
    /\ hashed = {} /\ last = NoLast /\ faulted = FALSE /\ faults = 0
    /\ runs = 0 /\ prev = NoPrev /\ report = NoReport /\ calls = 0
    /\ before = [conn |-> EmptyDb, disk |-> EmptyDb]
    /\ ev = NoEv
    /\ hist = NoHist

\* target_table, meta_payload = MetadataDispatcher.dispatch(file_path, ext)
Dispatch ==
    /\ ~dp.done
    /\ dp' = [dp EXCEPT !.done = TRUE,
                        !.result = dispatch(dp.path, dp.file, dp.extension)]
    /\ UNCHANGED <<tree, edits, conn, disk, pc, stack, current_dir, it, file_count,
                   hashed, last, faulted, faults, runs, prev, report, calls, before,
                   ev, hist>>

SpecDispatch == InitDispatch /\ [][Dispatch]_vars

(***************************************************************************)
(* Properties.                                                             *)
(***************************************************************************)
PathsOf(inv) == {r.file_path : r \in inv}

NormExt(path) == Lower(SplitExt(Basename(path)))

OneRowPerPath(db) ==
    \A r1, r2 \in db.inv : r1.file_path = r2.file_path => r1 = r2

\* C1: the parent table never holds two rows of the same file_path, in the
\* connection's view and in the committed database, however often and over
\* however many crawls a path is observed.
C1_OneRowPerPath == OneRowPerPath(conn) /\ OneRowPerPath(disk)

\* a second crawl has just committed a path the first crawl had recorded
C1_Witness ==
    /\ pc = "scan" /\ runs >= 1
    /\ last.result = "committed"
    /\ last.path \in PathsOf(prev.inv)
    /\ Cardinality(disk.inv) = 2

\* the record scan_directory assembles now for the file at a path
Observation(path) ==
    MainData([name |-> Basename(path), path |-> path, is_dir |-> FALSE, is_file |-> TRUE],
             tree[path], NormExt(path))

\* C2: after insert_full_entry committed for a path, the row of that path
\* holds the content fingerprint, modification time, size, category, risk
\* score and status of the new observation.
C2_UpsertReplacesAll ==
    (pc = "scan" /\ last.result = "committed") =>
        \A r \in conn.inv :
            r.file_path = last.path =>
                /\ r.content_hash = Observation(last.path).content_hash
                /\ r.dates_modified = Observation(last.path).dates_modified
                /\ r.size_bytes = Observation(last.path).size_bytes
                /\ r.category = Observation(last.path).category
                /\ r.risk_score = Observation(last.path).risk_score
                /\ r.status = Observation(last.path).status

Fingerprints(inv) ==
    {[file_path |-> r.file_path, content_hash |-> r.content_hash] : r \in inv}

\* C3: when a crawl ends that no transient fault hit, over a tree unchanged
\* since the previous crawl ended, which no transient fault hit either, the
\* parent table has as many rows, the same paths and the same content
\* fingerprints as when the previous crawl ended, and all of it is committed.
C3_CrawlIdempotent ==
    (pc = "report" /\ runs >= 1 /\ prev.clean /\ ~faulted /\ prev.edits = edits) =>
        /\ Cardinality(conn.inv) = Cardinality(prev.inv)
        /\ Fingerprints(conn.inv) = Fingerprints(prev.inv)
        /\ disk.inv = conn.inv

\* a second crawl over the unchanged tree of two files has ended
C3_Witness ==
    /\ pc = "report" /\ runs = 1 /\ prev.clean /\ ~faulted /\ edits = 0
    /\ Cardinality(prev.inv) = 2
    /\ file_count = 2

RECURSIVE CountSatellites(_, _, _)
\* number of satellite rows keyed by id over the given tables
CountSatellites(db, id, tables) ==
    IF tables = {} THEN 0
    ELSE LET t == CHOOSE x \in tables : TRUE
         IN  Cardinality({m \in db.meta[t] : m.file_id = id})
                + CountSatellites(db, id, tables \ {t})

SatellitesOk(db) ==
    /\ \A t \in MetaTables : \A m \in db.meta[t] :
          \E r \in db.inv : r.id = m.file_id /\ EXTENSION_MAP(NormExt(r.file_path)) = t
    /\ \A r \in db.inv : CountSatellites(db, r.id, MetaTables) <= 1

IdsKept(old, new) ==
    \A r \in old.inv : \E r2 \in new.inv : r2.file_path = r.file_path /\ r2.id = r.id

\* C4: no step changes the id of a path that has a parent row; after every
\* step each satellite row is keyed by the id of a parent row whose
\* extension family (EXTENSION_MAP) names the table it is in, and no parent
\* has more than one satellite row over the five tables.
C4_SatellitesFollowParent ==
    [][ /\ IdsKept(disk, disk') /\ IdsKept(conn, conn')
        /\ SatellitesOk(conn') /\ SatellitesOk(disk') ]_vars

\* a second crawl has just committed the rewritten drawing, whose satellite
\* row the first crawl had written
C4_Witness ==
    /\ pc = "scan" /\ runs >= 1
    /\ last = [path |-> Path_dwg, result |-> "committed"]
    /\ Path_dwg \in PathsOf(prev.inv)
    /\ tree[Path_dwg].mtime = 1
    /\ Cardinality(disk.meta["meta_cad"]) = 1
    /\ \A m \in disk.meta["meta_cad"] :
          m.software_version.arg = tree[Path_dwg].content

InNoGroup(db, path) == \A g \in get_duplicates(db) : path \notin g.paths

\* C5: a row whose normalized extension is a junk extension has category
\* TRASH_EXT and risk score 100 and is in no group of get_duplicates().
C5_JunkExtension ==
    \A db \in {conn, disk} : \A r \in db.inv :
        NormExt(r.file_path) \in TRASH_EXTENSIONS =>
            /\ r.category = "TRASH_EXT"
            /\ r.risk_score = 100
            /\ InNoGroup(db, r.file_path)

\* old.BAK is recorded with the content fingerprint of another row
C5_Witness ==
    \E r, r2 \in conn.inv :
        /\ r.file_path = Path_bak
        /\ r2.file_path = Path_dwg
        /\ r2.content_hash = r.content_hash
        /\ r.content_hash.sentinel = ""

NonTrash(r) == r.category \notin {"TRASH_EXT", "TRASH_SYS"}

\* C6: in the report of a crawl, two rows of non-trash category holding the
\* digest of the same bytes are together in exactly one duplicate group,
\* and the loss printed for every group is the sum of its members' sizes
\* minus the size of one of its members.
C6_GroupsAndWasted ==
    pc = "close" =>
        /\ \A r1, r2 \in conn.inv :
              ( /\ r1 # r2 /\ NonTrash(r1) /\ NonTrash(r2)
                /\ r1.content_hash.sentinel = ""
                /\ r1.content_hash = r2.content_hash ) =>
                  /\ \E g \in report.duplicates :
                        {r1.file_path, r2.file_path} \subseteq g.row.paths
                  /\ Cardinality({g \in report.duplicates :
                                    r1.file_path \in g.row.paths}) = 1
        /\ \A g \in report.duplicates :
              \E r \in conn.inv :
                  /\ r.file_path \in g.row.paths
                  /\ g.wasted.num = (g.row.total_wasted - r.size_bytes) * g.wasted.den

RECURSIVE SizeOfPaths(_, _)
\* the sizes recorded for the given paths, added up path by path
SizeOfPaths(db, paths) ==
    IF paths = {} THEN 0
    ELSE LET p == CHOOSE x \in paths : TRUE
             r == CHOOSE x \in db.inv : x.file_path = p
         IN  r.size_bytes + SizeOfPaths(db, paths \ {p})

RiskyPaths(db) ==
    {p \in FilePaths : \E r \in db.inv : r.file_path = p /\ r.risk_score >= 90}

\* C7: get_trash_stats() counts the rows of risk score >= 90 and adds up
\* their sizes, 0 when there is none, whatever their category and content
\* fingerprint.
C7_TrashStats ==
    /\ get_trash_stats(conn).count = Cardinality(RiskyPaths(conn))
    /\ get_trash_stats(conn).size = SizeOfPaths(conn, RiskyPaths(conn))

\* a conflict copy (score 90, no trash category) and a junk-extension file
\* of different sizes are both recorded
C7_Witness ==
    /\ \E r1, r2 \in conn.inv :
          /\ r1.category = "CONFLICT_COPY" /\ r1.risk_score = 90
          /\ r2.category = "TRASH_EXT"
          /\ r1.size_bytes # r2.size_bytes
    /\ get_trash_stats(conn) = [count |-> 2, size |-> 3]

\* C8: get_file_hash is never called on a file whose lower-cased name is a
\* system-junk filename, and every row of such a file holds SKIPPED_TRASH,
\* also after re-scans.
C8_SystemJunkNotHashed ==
    \A p \in FilePaths :
        Lower(Basename(p)) \in TRASH_FILENAMES =>
            /\ p \notin hashed
            /\ \A r \in conn.inv \cup disk.inv :
                  r.file_path = p => r.content_hash = SKIPPED_TRASH

\* a second crawl has just re-recorded Thumbs.db
C8_Witness ==
    /\ pc = "scan" /\ runs >= 1
    /\ last = [path |-> Path_thumbs, result |-> "committed"]
    /\ Path_thumbs \in PathsOf(prev.inv)
    /\ \E r \in disk.inv : r.file_path = Path_thumbs /\ r.content_hash = SKIPPED_TRASH

\* the arguments of EvNames and EvExts each rule of the classifier is meant
\* to catch, listed by hand
JunkExtArgs == {<<".", "b", "a", "k">>, <<".", "t", "m", "p">>, <<".", "s", "v", "$">>}
SysJunkArgs ==
    { <<"T", "h", "u", "m", "b", "s", ".", "d", "b">>,
      <<"d", "e", "s", "k", "t", "o", "p", ".", "i", "n", "i">>,
      <<".", "B", "r", "i", "d", "g", "e", "C", "a", "c", "h", "e">> }
ConflictArgs ==
    { <<"C", "o", "n", "f", "l", "i", "t", " ", "c", "o", "p", "i", "e", ".", "c", "s", "v">>,
      <<"c", "o", "p", "i", "e", "_", "C", "O", "N", "F", "L", "I", "T">> }

\* C9: evaluate answers every pair of arguments, with a score in 0..100:
\* (100, TRASH_EXT) for a junk extension whatever the filename; otherwise
\* (100, TRASH_SYS) for a system-junk filename whatever else it matches;
\* otherwise (90, CONFLICT_COPY) for a name with both tokens; otherwise
\* (0, PENDING).
C9_EvaluateRuleOrder ==
    ev.done =>
        /\ ev.result.score \in 0..100
        /\ ev.result =
              IF ev.extension \in JunkExtArgs
              THEN [score |-> 100, category |-> "TRASH_EXT"]
              ELSE IF ev.filename \in SysJunkArgs
              THEN [score |-> 100, category |-> "TRASH_SYS"]
              ELSE IF ev.filename \in ConflictArgs
              THEN [score |-> 90, category |-> "CONFLICT_COPY"]
              ELSE [score |-> 0, category |-> "PENDING"]

\* Thumbs.db passed with the junk extension .bak: the extension rule won
C9_Witness ==
    /\ ev.done
    /\ ev.filename = <<"T", "h", "u", "m", "b", "s", ".", "d", "b">>
    /\ ev.extension = <<".", "b", "a", "k">>
    /\ ev.result = [score |-> 100, category |-> "TRASH_EXT"]

\* C10: when insert_full_entry did not commit, the connection's view and the
\* committed database are what they were before the call, and nothing is
\* left uncommitted on the connection.
C10_InsertAtomic ==
    (calls > 0 /\ last.result \in {"rolled_back", "escaped"}) =>
        /\ conn = before.conn
        /\ disk = before.disk
        /\ conn = disk

RowsOf(db, path) == {r \in db.inv : r.file_path = path}

SatellitesOf(db, path) ==
    [t \in MetaTables |->
        {m \in db.meta[t] : \E r \in RowsOf(db, path) : r.id = m.file_id}]

\* C11: a step in which the processing of a file raises (at stat, in the
\* dispatcher, while the record is assembled: the exception reaches the
\* per-file handler) leaves the parent row and the satellite rows of that
\* file as they were, on the connection and in the committed database, and
\* leaves the rest of the listing and the work-list to be processed.
C11_FileErrorWritesNothing ==
    [][ \A e \in it :
          (e \notin it' /\ last'.path = e.path /\ last'.result = "file_error") =>
              /\ RowsOf(conn', e.path) = RowsOf(conn, e.path)
              /\ RowsOf(disk', e.path) = RowsOf(disk, e.path)
              /\ SatellitesOf(conn', e.path) = SatellitesOf(conn, e.path)
              /\ SatellitesOf(disk', e.path) = SatellitesOf(disk, e.path)
              /\ it' = it \ {e} /\ stack' = stack /\ pc' = "scan" ]_vars

\* the processing of b.dwg raised, nothing is recorded for it, and old.BAK of
\* the same directory was committed afterwards
C11_Witness ==
    /\ pc = "scan"
    /\ last = [path |-> Path_bak, result |-> "committed"]
    /\ hist.seen[Path_dwg] = 1 /\ hist.handed[Path_dwg] = 0
    /\ RowsOf(conn, Path_dwg) = {}
    /\ RowsOf(disk, Path_bak) # {}

\* the files get_file_hash is called on and cannot open
Unreadable(path) ==
    /\ tree[path].exists /\ ~tree[path].readable
    /\ Lower(Basename(path)) \notin TRASH_FILENAMES

\* C12: get_file_hash answers ACCESS_DENIED for a file it cannot open, and
\* after the crawl committed such a file its row holds ACCESS_DENIED as
\* content identity together with the file's size, modification time,
\* category and risk score.
C12_UnreadableStillRecorded ==
    /\ \A p \in FilePaths :
          (tree[p].exists /\ ~tree[p].readable) => get_file_hash(tree[p]) = ACCESS_DENIED
    /\ (pc = "scan" /\ last.result = "committed" /\ Unreadable(last.path)) =>
          \E r \in disk.inv :
              /\ r.file_path = last.path
              /\ r.content_hash = ACCESS_DENIED
              /\ r.size_bytes = Len(tree[last.path].content)
              /\ r.dates_modified = IsoFormat(tree[last.path].mtime)
              /\ r.category = Observation(last.path).category
              /\ r.risk_score = Observation(last.path).risk_score

\* path lies under the directory dir, at any depth
Below(path, dir) ==
    Len(path) > Len(dir) + 1 /\ SubSeq(path, 1, Len(dir) + 1) = dir \o <<"/">>

\* C13: once the listing of a directory raised, at its opening or part-way,
\* no step of the same crawl pops that directory again, pops a directory
\* below it or processes a file below it; the step in which the listing
\* raises leaves the crawl running with the rest of the work-list.
C13_ListingErrorAbandonsSubtree ==
    [][ (pc = "scan" /\ pc' = "scan") =>
          /\ \A d \in hist.abandoned :
                /\ hist'.popped[d] = hist.popped[d]
                /\ \A d2 \in Dirs : Below(d2, d) => hist'.popped[d2] = hist.popped[d2]
                /\ \A p \in FilePaths : Below(p, d) => hist'.seen[p] = hist.seen[p]
          /\ hist'.abandoned # hist.abandoned =>
                stack' \in {stack, SubSeq(stack, 1, Len(stack) - 1)} ]_vars

\* the first 6 bytes of a byte string, or all of it when it is shorter
Head6(bytes) == SubSeq(bytes, 1, IF Len(bytes) < 6 THEN Len(bytes) ELSE 6)

\* the version strings expected for the contents of DpContents that start
\* with a known signature, listed by hand
DwgRecognized ==
    { [content |-> <<65, 67, 49, 48, 51, 50, 0>>, version |-> "AutoCAD 2018/2023"],
      [content |-> <<65, 67, 49, 48, 49, 53>>, version |-> "AutoCAD 2000/2002"] }

\* the text expected in the label of the other contents, listed by hand
DwgLabelled ==
    { [content |-> <<65, 67, 57, 57, 57, 57>>, chars |-> <<65, 67, 57, 57, 57, 57>>],
      [content |-> <<65, 67>>, chars |-> <<65, 67>>],
      [content |-> <<>>, chars |-> <<>>],
      [content |-> <<255, 65, 67, 49, 48, 51, 50>>, chars |-> <<65, 67, 49, 48, 51>>] }

DwgCase == dp.done /\ dp.extension = Ext_dwg

\* C14 as stated: the software_version of a .dwg file is the mapped version
\* string when its first 6 bytes are a known signature, and otherwise a
\* non-empty label that contains those leading bytes.
C14_LabelHoldsRawBytes ==
    DwgCase =>
        LET sv == dp.result.payload.software_version
            hit == {k \in DwgRecognized : k.content = dp.file.content}
        IN  /\ sv.text # ""
            /\ IF hit # {}
               THEN sv = Label((CHOOSE k \in hit : TRUE).version, <<>>)
               ELSE sv.arg = Head6(dp.file.content)

\* C14, amended: for a .dwg file that can be opened, software_version is the
\* mapped version string when the first 6 bytes are a known signature, and
\* otherwise the label Legacy/New (...) around the UTF-8 text of those bytes
\* with the undecodable bytes dropped; for a file that cannot be opened it is
\* an Error: label; it is never empty, also for files shorter than 6 bytes.
C14_DwgVersionLabel ==
    DwgCase =>
        LET sv == dp.result.payload.software_version
            hit == {k \in DwgRecognized : k.content = dp.file.content}
            lab == {k \in DwgLabelled : k.content = dp.file.content}
        IN  /\ sv.text # ""
            /\ dp.result.table = "meta_cad"
            /\ IF ~dp.file.readable THEN sv = Label("Error: ", <<>>)
               ELSE IF hit # {}
               THEN sv = Label((CHOOSE k \in hit : TRUE).version, <<>>)
               ELSE /\ lab # {}
                    /\ sv = Label("Legacy/New ()", (CHOOSE k \in lab : TRUE).chars)

\* a drawing that starts with the byte FF got a label without that byte
C14_Witness ==
    /\ DwgCase /\ dp.file.readable
    /\ dp.file.content = <<255, 65, 67, 49, 48, 51, 50>>
    /\ dp.result.payload.software_version =
          Label("Legacy/New ()", <<65, 67, 49, 48, 51>>)

\* C15: dispatch answers the table EXTENSION_MAP assigns to the extension,
\* for every extension of the five families, and (None, empty map) exactly
\* for the extensions of no family.
C15_DispatchFollowsFamilyMap ==
    dp.done =>
        /\ dp.result.table = EXTENSION_MAP(dp.extension)
        /\ (dp.result.table = "None") = (dp.extension \notin FamilyExts)
        /\ dp.result.table = "None" => DOMAIN dp.result.payload = {}

\* the directory was popped, and its listing ran to the end
FullyListed(dir) == hist.popped[dir] = 1 /\ dir \notin hist.abandoned

StackOk == \A i \in 1..Len(stack) : stack[i] \in Dirs

\* the directories of a crawl that has ended: the work-list is empty, the
\* root and every directory found in a listing that ran to its end have been
\* popped once
DirsComplete ==
    /\ stack = <<>> /\ it = {}
    /\ hist.popped[ROOT] = 1
    /\ \A d \in Dirs \ {ROOT} : FullyListed(Dirname(d)) => hist.popped[d] = 1

\* C16 as stated, on a crawl that has ended: every regular file of a
\* directory whose listing ran to its end was handed to the store exactly
\* once (the extension allow-list is not configured: no file is filtered).
C16_EveryFileHandedOnce ==
    pc = "report" =>
        /\ DirsComplete
        /\ \A p \in FilesIn(tree) : FullyListed(Dirname(p)) => hist.handed[p] = 1

\* what holds of a crawl that has ended
CrawlComplete ==
    /\ DirsComplete
    /\ \A p \in FilesIn(tree) :
          FullyListed(Dirname(p)) =>
              /\ hist.seen[p] = 1
              /\ hist.handed[p] = IF p \in hist.raised THEN 0 ELSE 1

\* C16: every crawl that starts ends, with an empty work-list.  The
\* work-list only ever holds directories, never a symbolic link; no directory
\* is popped twice and no file is processed or handed to the store twice in
\* one crawl; when the crawl ends, the root and every directory found in a
\* listing that ran to its end have been popped exactly once, and every file
\* of a directory whose listing ran to its end has been processed exactly
\* once: handed to the store exactly once, or not at all when its processing
\* raised before the store was called.
C16_CrawlTerminates ==
    /\ [](/\ StackOk
          /\ \A d \in Dirs : hist.popped[d] <= 1
          /\ \A p \in FilePaths : hist.seen[p] <= 1 /\ hist.handed[p] <= 1
          /\ pc = "report" => CrawlComplete)
    /\ (pc = "scan") ~> (pc = "report")

\* a crawl of two files in the two sub-directories has ended: three
\* directories popped, the link r/t/up skipped, both files handed over
C16_Witness ==
    /\ pc = "report" /\ ~faulted
    /\ \A d \in Dirs : hist.popped[d] = 1
    /\ hist.handed[Path_dwg] = 1 /\ hist.handed[Path_csv] = 1
    /\ file_count = 2

\* C17: no group returned by get_duplicates is keyed by SKIPPED_TRASH or
\* ACCESS_DENIED: rows holding one of these two markers in place of a
\* digest are never reported as duplicates of one another.
C17_NoSentinelGroup ==
    \A db \in {conn, disk} :
        \A g \in get_duplicates(db) : g.content_hash.sentinel = ""

RECURSIVE SumWasted(_)
\* total_wasted of generate_report: the losses of the groups added up, as
\* the fraction num / den
SumWasted(groups) ==
    IF groups = {} THEN [num |-> 0, den |-> 1]
    ELSE LET g == CHOOSE x \in groups : TRUE
             rest == SumWasted(groups \ {g})
         IN  [num |-> g.wasted.num * rest.den + rest.num * g.wasted.den,
              den |-> g.wasted.den * rest.den]

\* C18: in every state of the store, the potential gain generate_report
\* prints (the losses of all duplicate groups plus the size of the trash) is
\* at most the sum of the sizes of all rows.
C18_GainWithinInventory ==
    \A db \in {conn, disk} :
        LET rep == generate_report(db)
            total_wasted == SumWasted(rep.duplicates)
        IN  total_wasted.num + rep.trash_stats.size * total_wasted.den
                <= SumSize(db.inv) * total_wasted.den

\* C19: the total of the terminal summary of a crawl, file_count, is the
\* number of files whose record the crawl committed to the store: a file
\* whose transaction was rolled back, or whose processing raised, is not
\* counted.
C19_CountIsCommitted ==
    pc = "report" => file_count = hist.committed

=============================================================================
